---- MODULE Spec2Model ----
(***************************************************************************)
(* Model of lib6502_dynarec: the CPU state of src/src/lib.rs and the       *)
(* translate-cache-execute engine of src/src/dynarec.rs.                   *)
(*                                                                         *)
(* Addresses are the program's 16-bit addresses.  The 65536-byte memory is *)
(* held sparsely: a function over the addresses the host has populated;    *)
(* every other byte is the zero CPU::new() put there.                      *)
(*                                                                         *)
(* `pc += n` on a u16 panics in a build with overflow checks (debug) and   *)
(* wraps in a build without (release); overflow_checks is the build.       *)
(***************************************************************************)
EXTENDS Integers, Sequences, FiniteSets, TLC

VARIABLES cpu, compiled_blocks, overflow_checks, panicked,
          translations, compiled_from, invocations, writes, last

vars == <<cpu, compiled_blocks, overflow_checks, panicked,
          translations, compiled_from, invocations, writes, last>>

----------------------------------------------------------------------------
(* Program constants *)

TopAddress == 65535
MemorySize == 65536
PowerOnPC == 32768
PowerOnSP == 253
PowerOnStatus == 36
OpLDA == 169
OpJMP == 76
OpBRK == 0
ZeroFlag == 2
NegativeFlag == 128

(* Bounds of the model *)

ProgLen == 4
MaxInvokes == 1
MaxWrites == 1

Byte == 0..255

----------------------------------------------------------------------------
(* u8 bit operations *)

RECURSIVE BitAnd(_, _, _)
BitAnd(m, n, bits) ==
    IF bits = 0 THEN 0
    ELSE (m % 2) * (n % 2) + 2 * BitAnd(m \div 2, n \div 2, bits - 1)

RECURSIVE BitOr(_, _, _)
BitOr(m, n, bits) ==
    IF bits = 0 THEN 0
    ELSE (IF (m % 2) + (n % 2) > 0 THEN 1 ELSE 0)
         + 2 * BitOr(m \div 2, n \div 2, bits - 1)

BitNot(m) == 255 - m

----------------------------------------------------------------------------
(* CPU state, src/src/lib.rs *)

\* memory: [u8; 0x10000], zero-filled by CPU::new(); index >= 0x10000 panics
InBounds(index) == index < MemorySize

MemRead(memory, index) ==
    IF index \in DOMAIN memory THEN memory[index] ELSE 0

CPU_new ==
    [a |-> 0, x |-> 0, y |-> 0, sp |-> PowerOnSP, pc |-> PowerOnPC,
     status |-> PowerOnStatus, memory |-> <<>>]

\* the registers of a CPU value, memory left out
Regs(c) == [a |-> c.a, x |-> c.x, y |-> c.y, sp |-> c.sp, pc |-> c.pc,
            status |-> c.status]

\* the flag update without the arm that clears Zero
update_flags_keep_zero(status, value) ==
    LET s1 == IF value = 0 THEN BitOr(status, ZeroFlag, 8) ELSE status
    IN  IF BitAnd(value, NegativeFlag, 8) # 0
        THEN BitOr(s1, NegativeFlag, 8)
        ELSE BitAnd(s1, BitNot(NegativeFlag), 8)

\* update_zero_and_negative_flags(&mut self, value) on the flag byte
update_zero_and_negative_flags(status, value) ==
    LET s1 == IF value = 0
              THEN BitOr(status, ZeroFlag, 8)
              ELSE BitAnd(status, BitNot(ZeroFlag), 8)
    IN  IF BitAnd(value, NegativeFlag, 8) # 0
        THEN BitOr(s1, NegativeFlag, 8)
        ELSE BitAnd(s1, BitNot(NegativeFlag), 8)

\* u16 `pc += n`: the checked build panics on overflow, the unchecked wraps
AddOverflows(pc, n) == pc + n > TopAddress
AddWrap(pc, n) == (pc + n) % MemorySize

\* the step interpreter loading A without the flag update
execute_instruction_no_flags(c, checks) ==
    LET opcode == MemRead(c.memory, c.pc)
        pc1 == AddWrap(c.pc, 1)
    IN  IF AddOverflows(c.pc, 1) /\ checks
        THEN [panic |-> TRUE, unsupported |-> FALSE, cpu |-> c]
        ELSE IF opcode = OpLDA
        THEN LET value == MemRead(c.memory, pc1)
             IN  IF AddOverflows(pc1, 1) /\ checks
                 THEN [panic |-> TRUE, unsupported |-> FALSE,
                       cpu |-> [c EXCEPT !.pc = pc1]]
                 ELSE [panic |-> FALSE, unsupported |-> FALSE,
                       cpu |-> [c EXCEPT !.pc = AddWrap(pc1, 1), !.a = value]]
        ELSE [panic |-> FALSE, unsupported |-> TRUE,
              cpu |-> [c EXCEPT !.pc = pc1]]

\* one instruction through the step interpreter; unsupported: the
\* "Unsupported opcode" line was printed
execute_instruction(c, checks) ==
    LET opcode == MemRead(c.memory, c.pc)
        pc1 == AddWrap(c.pc, 1)
    IN  IF AddOverflows(c.pc, 1) /\ checks
        THEN [panic |-> TRUE, unsupported |-> FALSE, cpu |-> c]
        ELSE IF opcode = OpLDA
        THEN LET value == MemRead(c.memory, pc1)
             IN  IF AddOverflows(pc1, 1) /\ checks
                 THEN [panic |-> TRUE, unsupported |-> FALSE,
                       cpu |-> [c EXCEPT !.pc = pc1]]
                 ELSE [panic |-> FALSE, unsupported |-> FALSE,
                       cpu |-> [c EXCEPT
                           !.pc = AddWrap(pc1, 1),
                           !.a = value,
                           !.status = update_zero_and_negative_flags(c.status, value)]]
        ELSE [panic |-> FALSE, unsupported |-> TRUE,
              cpu |-> [c EXCEPT !.pc = pc1]]

----------------------------------------------------------------------------
(* Translator and blocks, src/src/dynarec.rs *)

\* the closures pushed on `instructions`, with the operand each captured
LdaInstruction(value) == [op |-> "LDA", value |-> value, addr |-> 0]
JmpInstruction(addr) == [op |-> "JMP", value |-> 0, addr |-> addr]

\* the two closures translate_block can return
CompiledBlock(instructions) == [fallback |-> FALSE, instructions |-> instructions]
FallbackBlock == [fallback |-> TRUE, instructions |-> <<>>]

\* what one turn of the decode loop leaves: the cursor, the instructions
\* pushed so far, and whether the loop goes on ("next"), ends with the
\* compiled block ("done"), returns the fallback ("fallback") or panics
Decoded(kind, pc, instructions, overflow) ==
    [kind |-> kind, pc |-> pc, instructions |-> instructions,
     overflow |-> overflow]

\* arm 0xA9: pc1 is the cursor after the opcode
decode_lda(memory, pc1, instructions, checks) ==
    LET value == MemRead(memory, pc1)
    IN  IF AddOverflows(pc1, 1) /\ checks
        THEN Decoded("panic", pc1, instructions, TRUE)
        ELSE Decoded("next", AddWrap(pc1, 1),
                     Append(instructions, LdaInstruction(value)),
                     AddOverflows(pc1, 1))

\* arm 0x4C
decode_jmp(memory, pc1, instructions, checks) ==
    IF ~InBounds(pc1 + 1)
    THEN Decoded("panic", pc1, instructions, FALSE)
    ELSE LET low == MemRead(memory, pc1)
             high == MemRead(memory, pc1 + 1)
             addr == BitOr(high * 256, low, 16)
         IN  IF AddOverflows(pc1, 2) /\ checks
             THEN Decoded("panic", pc1, instructions, TRUE)
             ELSE Decoded("next", AddWrap(pc1, 2),
                          Append(instructions, JmpInstruction(addr)),
                          AddOverflows(pc1, 2))

\* arm 0x00 taken for an opcode the translator does not know
decode_brk_unknown(pc1, instructions) == Decoded("fallback", pc1, <<>>, FALSE)

\* arm 0x00: break
decode_brk(pc1, instructions) == Decoded("done", pc1, instructions, FALSE)

\* arm _: return the fallback closure
decode_other(pc1, instructions) == Decoded("fallback", pc1, <<>>, FALSE)

\* the body of the loop at cursor pc
decode_one(memory, pc, instructions, checks) ==
    LET opcode == MemRead(memory, pc)
        pc1 == pc + 1
    IN  CASE opcode = OpLDA -> decode_lda(memory, pc1, instructions, checks)
          [] opcode = OpJMP -> decode_jmp(memory, pc1, instructions, checks)
          [] opcode = OpBRK -> decode_brk(pc1, instructions)
          [] OTHER -> decode_other(pc1, instructions)

\* `while pc < 0xFFFF`
loop_condition(pc) == pc < TopAddress

\* the or_insert_with closure: the decode loop from start_pc
RECURSIVE decode_loop(_, _, _, _, _)
decode_loop(memory, pc, instructions, checks, overflow) ==
    IF ~loop_condition(pc)
    THEN [panic |-> FALSE, overflow |-> overflow,
          block |-> CompiledBlock(instructions)]
    ELSE LET d == decode_one(memory, pc, instructions, checks)
         IN  CASE d.kind = "next" ->
                    decode_loop(memory, d.pc, d.instructions, checks,
                                overflow \/ d.overflow)
               [] d.kind = "done" ->
                    [panic |-> FALSE, overflow |-> overflow,
                     block |-> CompiledBlock(d.instructions)]
               [] d.kind = "fallback" ->
                    [panic |-> FALSE, overflow |-> overflow,
                     block |-> FallbackBlock]
               [] OTHER ->
                    [panic |-> TRUE, overflow |-> overflow \/ d.overflow,
                     block |-> FallbackBlock]

\* a cache that never finds its entry (insert in place of or_insert_with)
cache_hit_never(blocks, start_pc) == FALSE

\* HashMap::entry(start_pc).or_insert_with(..): is the closure skipped
cache_hit(blocks, start_pc) == start_pc \in DOMAIN blocks

\* translate_block decoding with cpu.pc as its cursor start
translate_block_moves_pc(blocks, c, start_pc, checks) ==
    IF cache_hit(blocks, start_pc)
    THEN [panic |-> FALSE, overflow |-> FALSE, ran |-> FALSE,
          blocks |-> blocks, cpu |-> c]
    ELSE LET r == decode_loop(c.memory, start_pc, <<>>, checks, FALSE)
         IN  [panic |-> r.panic, overflow |-> r.overflow, ran |-> TRUE,
              blocks |-> IF r.panic THEN blocks
                         ELSE (start_pc :> r.block) @@ blocks,
              cpu |-> [c EXCEPT !.pc = start_pc]]

\* a translator that leaves the cpu's pc past the opcode it decoded first
translate_block_advances_pc(blocks, c, start_pc, checks) ==
    IF cache_hit(blocks, start_pc)
    THEN [panic |-> FALSE, overflow |-> FALSE, ran |-> FALSE,
          blocks |-> blocks, cpu |-> c]
    ELSE LET r == decode_loop(c.memory, start_pc, <<>>, checks, FALSE)
         IN  [panic |-> r.panic, overflow |-> r.overflow, ran |-> TRUE,
              blocks |-> IF r.panic THEN blocks
                         ELSE (start_pc :> r.block) @@ blocks,
              cpu |-> [c EXCEPT !.pc = AddWrap(start_pc, 1)]]

\* translate_block(&mut self, cpu, start_pc): the cache and the cpu it leaves
translate_block(blocks, c, start_pc, checks) ==
    IF cache_hit(blocks, start_pc)
    THEN [panic |-> FALSE, overflow |-> FALSE, ran |-> FALSE,
          blocks |-> blocks, cpu |-> c]
    ELSE LET r == decode_loop(c.memory, start_pc, <<>>, checks, FALSE)
         IN  [panic |-> r.panic, overflow |-> r.overflow, ran |-> TRUE,
              blocks |-> IF r.panic THEN blocks
                         ELSE (start_pc :> r.block) @@ blocks,
              cpu |-> c]

\* the LDA closure without its `cpu.pc += 2`
apply_instruction_no_advance(inst, c, checks) ==
    IF inst.op = "LDA"
    THEN [panic |-> FALSE,
          cpu |-> [c EXCEPT
              !.a = inst.value,
              !.status = update_zero_and_negative_flags(c.status, inst.value)]]
    ELSE [panic |-> FALSE, cpu |-> [c EXCEPT !.pc = inst.addr]]

\* the LDA closure reading its operand from memory when it runs
apply_instruction_rereads(inst, c, checks) ==
    IF inst.op = "LDA"
    THEN IF AddOverflows(c.pc, 2) /\ checks
         THEN [panic |-> TRUE, cpu |-> c]
         ELSE LET value == MemRead(c.memory, AddWrap(c.pc, 1))
              IN  [panic |-> FALSE,
                   cpu |-> [c EXCEPT
                       !.a = value,
                       !.status = update_zero_and_negative_flags(c.status, value),
                       !.pc = AddWrap(c.pc, 2)]]
    ELSE [panic |-> FALSE, cpu |-> [c EXCEPT !.pc = inst.addr]]

\* the LDA closure writing X along with A
apply_instruction_sets_x(inst, c, checks) ==
    IF inst.op = "LDA"
    THEN IF AddOverflows(c.pc, 2) /\ checks
         THEN [panic |-> TRUE,
               cpu |-> [c EXCEPT
                   !.a = inst.value,
                   !.x = inst.value,
                   !.status = update_zero_and_negative_flags(c.status, inst.value)]]
         ELSE [panic |-> FALSE,
               cpu |-> [c EXCEPT
                   !.a = inst.value,
                   !.x = inst.value,
                   !.status = update_zero_and_negative_flags(c.status, inst.value),
                   !.pc = AddWrap(c.pc, 2)]]
    ELSE [panic |-> FALSE, cpu |-> [c EXCEPT !.pc = inst.addr]]

\* one pushed closure applied to the cpu; the panic of `cpu.pc += 2` comes
\* after A and the flags are written
apply_instruction(inst, c, checks) ==
    IF inst.op = "LDA"
    THEN IF AddOverflows(c.pc, 2) /\ checks
         THEN [panic |-> TRUE,
               cpu |-> [c EXCEPT
                   !.a = inst.value,
                   !.status = update_zero_and_negative_flags(c.status, inst.value)]]
         ELSE [panic |-> FALSE,
               cpu |-> [c EXCEPT
                   !.a = inst.value,
                   !.status = update_zero_and_negative_flags(c.status, inst.value),
                   !.pc = AddWrap(c.pc, 2)]]
    ELSE [panic |-> FALSE, cpu |-> [c EXCEPT !.pc = inst.addr]]

\* the loop over the instructions returning after the first one
RECURSIVE run_instructions_first_only(_, _, _, _)
run_instructions_first_only(instructions, i, c, checks) ==
    IF i > Len(instructions) \/ i > 1
    THEN [panic |-> FALSE, cpu |-> c]
    ELSE LET r == apply_instruction(instructions[i], c, checks)
         IN  IF r.panic THEN r
             ELSE run_instructions_first_only(instructions, i + 1, r.cpu, checks)

\* `for inst in &instructions { inst(cpu); }`
RECURSIVE run_instructions(_, _, _, _)
run_instructions(instructions, i, c, checks) ==
    IF i > Len(instructions)
    THEN [panic |-> FALSE, cpu |-> c]
    ELSE LET r == apply_instruction(instructions[i], c, checks)
         IN  IF r.panic THEN r
             ELSE run_instructions(instructions, i + 1, r.cpu, checks)

\* block(cpu): the cpu it leaves, the u16 it returns, and whether the
\* interpreter printed its "Unsupported opcode" line
invoke_block(block, c, checks) ==
    LET r == IF block.fallback
             THEN execute_instruction(c, checks)
             ELSE run_instructions(block.instructions, 1, c, checks)
    IN  [panic |-> r.panic, cpu |-> r.cpu, ret |-> r.cpu.pc,
         unsupported |-> block.fallback /\ r.unsupported]

----------------------------------------------------------------------------
(* What the host does around the engine *)

\* byte values the host loads: BRK, JMP, a positive literal, LDA, an opcode
\* the translator does not know
ByteVals == {0, 76, 128, 169, 234}

\* addresses the host loads a program at
Bases == {32768, 65532, 65533, 65534, 65535}

\* ProgLen bytes loaded from base on, wrapping at the top of the memory
Image(base, prog) ==
    [i \in {(base + k - 1) % MemorySize : k \in 1..ProgLen} |->
        prog[((i + MemorySize - base) % MemorySize) + 1]]

Images == {Image(base, prog) : base \in Bases, prog \in [1..ProgLen -> ByteVals]}

\* the address the loaded program starts at
EntryOf(memory) ==
    CHOOSE d \in DOMAIN memory :
        ((d + MemorySize - 1) % MemorySize) \notin DOMAIN memory

NoTranslations == [i \in {} |-> 0]

\* the last operation: invoked, at and unsupported are set by the
\* operations that invoke a block (the PC the block was entered with)
Last(op, entry, value, pre, ran, overflow, ret) ==
    [op |-> op, entry |-> entry, value |-> value, pre |-> pre,
     ran |-> ran, overflow |-> overflow, ret |-> ret,
     invoked |-> FALSE, at |-> pre.pc, unsupported |-> FALSE]

Invoked(l, at, unsupported) ==
    [l EXCEPT !.invoked = TRUE, !.at = at, !.unsupported = unsupported]

Count(f, i) == IF i \in DOMAIN f THEN f[i] ELSE 0

----------------------------------------------------------------------------
(* SpecFlags: update_zero_and_negative_flags on every flag byte and value *)

InitFlags ==
    /\ \E s \in Byte : cpu = [CPU_new EXCEPT !.status = s]
    /\ compiled_blocks = <<>>
    /\ overflow_checks = TRUE
    /\ panicked = FALSE
    /\ translations = NoTranslations
    /\ compiled_from = <<>>
    /\ invocations = 0
    /\ writes = 0
    /\ last = Last("none", 0, 0, cpu, FALSE, FALSE, 0)

UpdateFlags(value) ==
    /\ last.op = "none"
    /\ cpu' = [cpu EXCEPT !.status = update_zero_and_negative_flags(cpu.status, value)]
    /\ last' = Last("flags", 0, value, cpu, FALSE, FALSE, 0)
    /\ UNCHANGED <<compiled_blocks, overflow_checks, panicked, translations,
                   compiled_from, invocations, writes>>

NextFlags == \E value \in Byte : UpdateFlags(value)

SpecFlags == InitFlags /\ [][NextFlags]_vars

Bit(v, k) == (v \div (2 ^ k)) % 2

\* C7: update_zero_and_negative_flags(v) on flag byte s gives a flag byte with
\* bit 1 set iff v = 0, bit 7 equal to bit 7 of v, and the other six bits
\* those of s.
C7_FlagUpdate ==
    last.op = "flags" =>
        /\ (Bit(cpu.status, 1) = 1) <=> (last.value = 0)
        /\ Bit(cpu.status, 7) = Bit(last.value, 7)
        /\ \A k \in {0, 2, 3, 4, 5, 6} :
               Bit(cpu.status, k) = Bit(last.pre.status, k)

\* the Zero flag was set before and a non-zero value clears it
C7_Witness ==
    /\ last.op = "flags"
    /\ Bit(last.pre.status, 1) = 1
    /\ last.value = 128
    /\ Bit(cpu.status, 1) = 0
    /\ Bit(cpu.status, 7) = 1

----------------------------------------------------------------------------
(* Spec: a host that loads a program, resolves the block at its entry      *)
(* address, sets the program counter and invokes the block, as the tests   *)
(* of src/src/dynarec.rs do.  Memory is not written after the load.        *)

Init ==
    /\ \E memory \in Images : cpu = [CPU_new EXCEPT !.memory = memory]
    /\ compiled_blocks = <<>>
    /\ overflow_checks \in BOOLEAN
    /\ panicked = FALSE
    /\ translations = NoTranslations
    /\ compiled_from = <<>>
    /\ invocations = 0
    /\ writes = 0
    /\ last = Last("none", 0, 0, cpu, FALSE, FALSE, 0)

\* dynarec.translate_block(&mut cpu, start_pc)
TranslateBlock(start_pc) ==
    /\ ~panicked
    /\ LET r == translate_block(compiled_blocks, cpu, start_pc, overflow_checks)
       IN  /\ compiled_blocks' = r.blocks
           /\ cpu' = r.cpu
           /\ panicked' = r.panic
           /\ translations' =
                  IF r.ran /\ ~r.panic
                  THEN (start_pc :> Count(translations, start_pc) + 1) @@ translations
                  ELSE translations
           /\ compiled_from' =
                  IF r.ran /\ ~r.panic
                  THEN (start_pc :> cpu.memory) @@ compiled_from
                  ELSE compiled_from
           /\ last' = Last("translate", start_pc, 0, cpu, r.ran, r.overflow, 0)
    /\ UNCHANGED <<overflow_checks, invocations, writes>>

\* cpu.pc = jit_fn(&mut cpu) on the block cached for entry
InvokeBlock(entry) ==
    /\ ~panicked
    /\ entry \in DOMAIN compiled_blocks
    /\ invocations < MaxInvokes
    /\ LET r == invoke_block(compiled_blocks[entry], cpu, overflow_checks)
       IN  /\ cpu' = IF r.panic THEN r.cpu ELSE [r.cpu EXCEPT !.pc = r.ret]
           /\ panicked' = r.panic
           /\ last' = Invoked(Last("invoke", entry, 0, cpu, FALSE, FALSE, r.ret),
                              cpu.pc, r.unsupported)
    /\ invocations' = invocations + 1
    /\ UNCHANGED <<compiled_blocks, overflow_checks, translations,
                   compiled_from, writes>>

\* cpu.pc = p, the host's reset of the program counter before it invokes
SetPC(p) ==
    /\ ~panicked
    /\ invocations = 0
    /\ cpu.pc # p
    /\ cpu' = [cpu EXCEPT !.pc = p]
    /\ last' = Last("setpc", p, 0, cpu, FALSE, FALSE, 0)
    /\ UNCHANGED <<compiled_blocks, overflow_checks, panicked, translations,
                   compiled_from, invocations, writes>>

\* program counters the host invokes a block at
HostPCs(entry) == {entry, (entry + 1) % MemorySize, TopAddress}

Next ==
    \/ TranslateBlock(EntryOf(cpu.memory))
    \/ InvokeBlock(EntryOf(cpu.memory))
    \/ \E p \in HostPCs(EntryOf(cpu.memory)) : SetPC(p)

Spec == Init /\ [][Next]_vars

----------------------------------------------------------------------------
(* SpecHost: a host that also overwrites memory bytes between resolves and *)
(* invocations, and resolves two entry addresses                           *)

\* the instructions the host assembles its programs from: LDA #$80,
\* JMP $8000, BRK and an opcode the translator does not know
HostInstructions == {<<OpLDA, 128>>, <<OpJMP, 0, 128>>, <<OpBRK>>, <<234>>}

\* the first ProgLen bytes of code, zero-filled when code is shorter
Padded(code) ==
    [k \in 1..ProgLen |-> IF k <= Len(code) THEN code[k] ELSE 0]

\* two instructions at the power-on PC
HostImages ==
    {Image(PowerOnPC, Padded(i1 \o i2)) :
        i1 \in HostInstructions, i2 \in HostInstructions}

\* byte values the host overwrites memory with
HostVals == {OpBRK, OpLDA}

InitHost ==
    /\ \E memory \in HostImages : cpu = [CPU_new EXCEPT !.memory = memory]
    /\ compiled_blocks = <<>>
    /\ overflow_checks \in BOOLEAN
    /\ panicked = FALSE
    /\ translations = NoTranslations
    /\ compiled_from = <<>>
    /\ invocations = 0
    /\ writes = 0
    /\ last = Last("none", 0, 0, cpu, FALSE, FALSE, 0)

\* cpu.memory[index] = value
HostWrite(index, value) ==
    /\ ~panicked
    /\ writes < MaxWrites
    /\ cpu.memory[index] # value
    /\ cpu' = [cpu EXCEPT !.memory[index] = value]
    /\ writes' = writes + 1
    /\ last' = Last("write", index, value, cpu, FALSE, FALSE, 0)
    /\ UNCHANGED <<compiled_blocks, overflow_checks, panicked, translations,
                   compiled_from, invocations>>

\* entry addresses the host resolves
HostEntries == {PowerOnPC, PowerOnPC + 2}

NextHost ==
    \/ \E start_pc \in HostEntries : TranslateBlock(start_pc)
    \/ \E entry \in HostEntries : InvokeBlock(entry)
    \/ \E index \in DOMAIN cpu.memory, value \in HostVals :
           HostWrite(index, value)

SpecHost == InitHost /\ [][NextHost]_vars

----------------------------------------------------------------------------
(* SpecRun: CPU::run from the power-on state on a loaded image *)

\* byte values of the images the loop is run on: ByteVals without the
\* positive literal, with the bytes of the addresses 0xFFFE and 0xFFFF
RunByteVals == {0, 76, 169, 234, 254, 255}

\* a program at the power-on PC and one byte at 0xFFFE
RunImages ==
    {Image(PowerOnPC, prog) @@ (TopAddress - 1 :> top) :
        prog \in [1..ProgLen -> RunByteVals], top \in {OpBRK, OpJMP}}

InitRun ==
    /\ \E memory \in RunImages : cpu = [CPU_new EXCEPT !.memory = memory]
    /\ compiled_blocks = <<>>
    /\ overflow_checks \in BOOLEAN
    /\ panicked = FALSE
    /\ translations = NoTranslations
    /\ compiled_from = <<>>
    /\ invocations = 0
    /\ writes = 0
    /\ last = Last("none", 0, 0, cpu, FALSE, FALSE, 0)

\* one turn of the loop of CPU::run:
\*   let block = dynarec.translate_block(self, self.pc); self.pc = block(self);
RunCycle ==
    /\ ~panicked
    /\ LET t == translate_block(compiled_blocks, cpu, cpu.pc, overflow_checks)
           r == invoke_block(t.blocks[cpu.pc], t.cpu, overflow_checks)
           ok == ~t.panic /\ ~r.panic
       IN  /\ compiled_blocks' = t.blocks
           /\ translations' =
                  IF t.ran /\ ~t.panic
                  THEN (cpu.pc :> Count(translations, cpu.pc) + 1) @@ translations
                  ELSE translations
           /\ compiled_from' =
                  IF t.ran /\ ~t.panic
                  THEN (cpu.pc :> cpu.memory) @@ compiled_from
                  ELSE compiled_from
           /\ panicked' = ~ok
           /\ cpu' = CASE t.panic -> t.cpu
                        [] r.panic -> r.cpu
                        [] OTHER -> [r.cpu EXCEPT !.pc = r.ret]
           /\ last' = LET l == Last("cycle", cpu.pc, 0, cpu, t.ran, t.overflow,
                                     IF ok THEN r.ret ELSE 0)
                      IN  IF t.panic THEN l
                          ELSE Invoked(l, t.cpu.pc, r.unsupported)
    /\ UNCHANGED <<overflow_checks, invocations, writes>>

NextRun == RunCycle

SpecRun == InitRun /\ [][NextRun]_vars

----------------------------------------------------------------------------
(* Claims about one resolve and one invocation (Spec) *)

Entry == EntryOf(cpu.memory)

\* the block for Entry was resolved and invoked with PC = Entry
InvokedAtEntry ==
    /\ last.op = "invoke"
    /\ last.entry = Entry
    /\ last.pre.pc = Entry

\* resolving or invoking the block for Entry ended in a panic
FailedAtEntry ==
    /\ panicked
    /\ last.entry = Entry
    /\ last.op = "translate" \/ (last.op = "invoke" /\ last.pre.pc = Entry)

LdaResult(value) ==
    /\ cpu.a = value
    /\ cpu.pc = Entry + 2
    /\ (Bit(cpu.status, 1) = 1) <=> (value = 0)
    /\ (Bit(cpu.status, 7) = 1) <=> (Bit(value, 7) = 1)

\* C1 as stated: memory[a] = 0xA9 and memory[a+1] = V, whatever the other
\* bytes are; resolving the block for a and invoking it with PC = a leaves
\* A = V, PC = a+2, Zero iff V = 0 and Negative iff bit 7 of V.
C1_AsStated ==
    (MemRead(cpu.memory, Entry) = OpLDA /\ Entry + 2 <= TopAddress) =>
        (InvokedAtEntry => LdaResult(MemRead(cpu.memory, Entry + 1)))

\* the instruction at a is the only one the block for a holds: a+2 is the
\* last address (decoding ends there) or holds neither 0xA9 nor 0x4C
LdaAlone ==
    /\ MemRead(cpu.memory, Entry) = OpLDA
    /\ Entry + 2 <= TopAddress
    /\ \/ Entry + 2 = TopAddress
       \/ MemRead(cpu.memory, Entry + 2) \notin {OpLDA, OpJMP}

\* C1 amended: memory[a] = 0xA9, memory[a+1] = V, a+2 <= 0xFFFF, and the byte
\* at a+2 is neither 0xA9 nor 0x4C unless a+2 = 0xFFFF; resolving the block
\* for a and invoking it with PC = a leaves A = V, PC = a+2, Zero iff V = 0
\* and Negative iff bit 7 of V.
C1_LdaImmediate ==
    LdaAlone =>
        /\ ~FailedAtEntry
        /\ InvokedAtEntry => LdaResult(MemRead(cpu.memory, Entry + 1))

\* a compiled LDA #$80 block was invoked at its entry
C1_Witness ==
    /\ LdaAlone
    /\ InvokedAtEntry
    /\ ~compiled_blocks[Entry].fallback
    /\ MemRead(cpu.memory, Entry + 1) = 128
    /\ cpu.a = 128
    /\ cpu.pc = Entry + 2

JmpTarget ==
    MemRead(cpu.memory, Entry + 2) * 256 + MemRead(cpu.memory, Entry + 1)

\* C2: memory[a] = 0x4C and memory[a+1], memory[a+2] hold T little-endian,
\* whatever the other bytes are; resolving the block for a and invoking it
\* with PC = a returns and leaves PC = T.
C2_JmpAbsolute ==
    (MemRead(cpu.memory, Entry) = OpJMP /\ Entry + 2 <= TopAddress) =>
        /\ ~FailedAtEntry
        /\ InvokedAtEntry => (cpu.pc = JmpTarget /\ last.ret = JmpTarget)

\* the block for a was compiled from the single instruction at a
OneInstructionBlock ==
    /\ Entry \in DOMAIN compiled_blocks
    /\ ~compiled_blocks[Entry].fallback
    /\ \/ /\ MemRead(cpu.memory, Entry) = OpBRK
          /\ Len(compiled_blocks[Entry].instructions) = 0
       \/ /\ MemRead(cpu.memory, Entry) \in {OpLDA, OpJMP}
          /\ Len(compiled_blocks[Entry].instructions) = 1

\* C3: for 0xA9, 0x4C and 0x00 at a, invoking the one-instruction block
\* compiled at a with PC = a leaves the A, X, Y, SP, flag byte and PC that
\* execute_instruction leaves from the same state.
C3_CompiledEqualsInterpreted ==
    (OneInstructionBlock /\ InvokedAtEntry /\ ~panicked) =>
        LET r == execute_instruction(last.pre, overflow_checks)
        IN  ~r.panic /\ Regs(cpu) = Regs(r.cpu)

\* C5: memory[a] = 0x00; the block compiled at a has no micro-operation, and
\* invoking it with PC = p returns p and leaves registers, flags, PC and
\* memory as they were.
C5_BreakFirst ==
    MemRead(cpu.memory, Entry) = OpBRK =>
        /\ ~panicked
        /\ Entry \in DOMAIN compiled_blocks =>
               compiled_blocks[Entry] = CompiledBlock(<<>>)
        /\ last.op = "invoke" =>
               (cpu = last.pre /\ last.ret = last.pre.pc)

\* the break-first block was invoked with the PC somewhere else than a
C5_Witness ==
    /\ MemRead(cpu.memory, Entry) = OpBRK
    /\ MemRead(cpu.memory, (Entry + 1) % MemorySize) = OpLDA
    /\ last.op = "invoke"
    /\ last.entry = Entry
    /\ last.pre.pc = (Entry + 1) % MemorySize
    /\ cpu.pc = last.pre.pc

\* C6: translate_block completes and returns a block for every memory image
\* and entry address: no panic, and the decode cursor never overflows.
C6_TranslatorTotal ==
    last.op = "translate" => (~panicked /\ ~last.overflow)

\* C9: translate_block leaves registers, flags, PC and memory alone and at
\* most adds the cache entry for its address.
C9_TranslateFrame ==
    [][last'.op = "translate" =>
          /\ cpu' = cpu
          /\ DOMAIN compiled_blocks' \subseteq
                 DOMAIN compiled_blocks \cup {last'.entry}
          /\ \A k \in DOMAIN compiled_blocks :
                 compiled_blocks'[k] = compiled_blocks[k]]_vars

\* a block was compiled while the PC was somewhere else than its entry
C9_Witness ==
    /\ last.op = "translate"
    /\ last.ran
    /\ last.entry \in DOMAIN compiled_blocks
    /\ Len(compiled_blocks[last.entry].instructions) = 2
    /\ cpu.pc # last.entry
    /\ cpu = last.pre

----------------------------------------------------------------------------
(* Claims about the cache under host writes (SpecHost) *)

TranslatedOnce ==
    /\ DOMAIN translations = DOMAIN compiled_blocks
    /\ \A k \in DOMAIN translations : translations[k] = 1

CacheKept ==
    \A k \in DOMAIN compiled_blocks :
        /\ k \in DOMAIN compiled_blocks'
        /\ compiled_blocks'[k] = compiled_blocks[k]

\* C4: over any resolves, invocations and host writes the translator has run
\* once for every cached address and no more, and a cached block is never
\* evicted or replaced: a later resolve returns the block the first inserted.
C4_CachePermanence == []TranslatedOnce /\ [][CacheKept]_vars

\* an address was resolved again after a write that would now decode to
\* another block, and the cache still holds the first block
C4_Witness ==
    /\ last.op = "translate"
    /\ ~last.ran
    /\ ~panicked
    /\ writes > 0
    /\ translations[last.entry] = 1
    /\ LET r == decode_loop(cpu.memory, last.entry, <<>>, overflow_checks, FALSE)
       IN  ~r.panic /\ r.block # compiled_blocks[last.entry]

\* what the code at address k of the compile-time memory does to the
\* registers e, read instruction by instruction up to the break
RECURSIVE CapturedEffect(_, _, _)
CapturedEffect(memory, k, e) ==
    IF k >= TopAddress THEN e
    ELSE CASE MemRead(memory, k) = OpLDA ->
                CapturedEffect(memory, k + 2,
                    [e EXCEPT !.a = MemRead(memory, k + 1),
                              !.zero = IF MemRead(memory, k + 1) = 0 THEN 1 ELSE 0,
                              !.negative = Bit(MemRead(memory, k + 1), 7),
                              !.pc = (e.pc + 2) % MemorySize])
           [] MemRead(memory, k) = OpJMP ->
                CapturedEffect(memory, k + 3,
                    [e EXCEPT !.pc = MemRead(memory, k + 2) * 256
                                     + MemRead(memory, k + 1)])
           [] OTHER -> e

\* C8: a compiled block cached for a does, after any host overwrite of
\* memory, what the bytes read at its compilation say: invoked from a state
\* it leaves the A, flags and PC given by the immediates and jump targets of
\* the compile-time memory, and the other registers and memory as they were.
C8_OperandsCaptured ==
    (last.op = "invoke" /\ ~panicked /\ ~compiled_blocks[last.entry].fallback) =>
        LET e == CapturedEffect(compiled_from[last.entry], last.entry,
                     [a |-> last.pre.a, pc |-> last.pre.pc,
                      zero |-> Bit(last.pre.status, 1),
                      negative |-> Bit(last.pre.status, 7)])
        IN  /\ cpu.a = e.a
            /\ cpu.pc = e.pc
            /\ last.ret = e.pc
            /\ Bit(cpu.status, 1) = e.zero
            /\ Bit(cpu.status, 7) = e.negative
            /\ \A k \in {0, 2, 3, 4, 5, 6} :
                   Bit(cpu.status, k) = Bit(last.pre.status, k)
            /\ cpu.x = last.pre.x /\ cpu.y = last.pre.y /\ cpu.sp = last.pre.sp
            /\ cpu.memory = last.pre.memory

\* the operand of a compiled LDA #$80 was overwritten and the block, invoked
\* afterwards, still loaded 0x80
C8_Witness ==
    /\ last.op = "invoke"
    /\ ~panicked
    /\ compiled_blocks[last.entry] = CompiledBlock(<<LdaInstruction(128)>>)
    /\ last.pre.pc = last.entry
    /\ MemRead(compiled_from[last.entry], last.entry + 1) = 128
    /\ MemRead(cpu.memory, last.entry + 1) = OpLDA
    /\ cpu.a = 128

----------------------------------------------------------------------------
(* Claims about the execution loop (SpecRun) *)

\* C10: from the power-on state and every memory image the loop can always
\* take another cycle: no cycle ends the run.
C10_LoopNeverStops == ~panicked

----------------------------------------------------------------------------
(* Claims about the shape of compiled blocks (Spec) *)

\* C11: decoding stops when a jump is emitted: a compiled block holds at
\* most one JMP micro-operation and that one is its last.
C11_JumpEndsBlock ==
    \A k \in DOMAIN compiled_blocks :
        \A i \in 1..Len(compiled_blocks[k].instructions) :
            compiled_blocks[k].instructions[i].op = "JMP" =>
                i = Len(compiled_blocks[k].instructions)

\* reading the memory instruction by instruction from address k, an opcode
\* other than 0xA9, 0x4C and 0x00 comes before a break and before the top
RECURSIVE MeetsUnknown(_, _)
MeetsUnknown(memory, k) ==
    IF k >= TopAddress THEN FALSE
    ELSE CASE MemRead(memory, k) = OpLDA -> MeetsUnknown(memory, k + 2)
           [] MemRead(memory, k) = OpJMP -> MeetsUnknown(memory, k + 3)
           [] MemRead(memory, k) = OpBRK -> FALSE
           [] OTHER -> TRUE

\* C12: when decoding from a meets an unknown opcode before a break, the
\* block cached for a is the fallback with nothing of the decoded
\* micro-operations left, and every invocation of it executes the one
\* instruction at the PC the CPU has then and returns the PC that leaves:
\* for 0xA9 there, A = its operand and PC advanced by 2.
C12_FallbackOnUnknown ==
    MeetsUnknown(cpu.memory, Entry) =>
        /\ Entry \in DOMAIN compiled_blocks =>
               compiled_blocks[Entry] = FallbackBlock
        /\ last.op \in {"translate", "invoke"} => ~panicked
        /\ last.op = "invoke" =>
               /\ last.ret = cpu.pc
               /\ cpu.memory = last.pre.memory
               /\ MemRead(cpu.memory, last.pre.pc) = OpLDA =>
                      /\ cpu.a = MemRead(cpu.memory, (last.pre.pc + 1) % MemorySize)
                      /\ cpu.pc = (last.pre.pc + 2) % MemorySize
               /\ MemRead(cpu.memory, last.pre.pc) # OpLDA =>
                      /\ cpu.a = last.pre.a
                      /\ cpu.pc = (last.pre.pc + 1) % MemorySize

\* memory from a holds n LDA instructions and then a break
LdaRun(n) ==
    /\ Entry + 2 * n <= TopAddress
    /\ \A i \in 0..(n - 1) : MemRead(cpu.memory, Entry + 2 * i) = OpLDA
    /\ MemRead(cpu.memory, Entry + 2 * n) = OpBRK

\* C13: memory from a holds n >= 1 LDA instructions with immediates V1..Vn
\* and then a break; the block compiled at a holds the n micro-operations in
\* decode order, and one invocation with PC = a leaves A = Vn, the flags of
\* Vn and returns PC = a + 2n.
C13_StraightLineBlock ==
    \A n \in 1..ProgLen :
        LdaRun(n) =>
            /\ ~FailedAtEntry
            /\ Entry \in DOMAIN compiled_blocks =>
                   compiled_blocks[Entry] = CompiledBlock(
                       [i \in 1..n |->
                           LdaInstruction(MemRead(cpu.memory, Entry + 2 * i - 1))])
            /\ InvokedAtEntry =>
                   LET vn == MemRead(cpu.memory, Entry + 2 * n - 1)
                   IN  /\ cpu.a = vn
                       /\ (Bit(cpu.status, 1) = 1) <=> (vn = 0)
                       /\ Bit(cpu.status, 7) = Bit(vn, 7)
                       /\ cpu.pc = Entry + 2 * n
                       /\ last.ret = Entry + 2 * n

\* LDA #$80, LDA #$00, BRK was compiled and invoked at its entry
C13_Witness ==
    /\ LdaRun(2)
    /\ InvokedAtEntry
    /\ MemRead(cpu.memory, Entry + 1) = 128
    /\ MemRead(cpu.memory, Entry + 3) = 0
    /\ cpu.a = 0
    /\ Bit(cpu.status, 1) = 1
    /\ Bit(cpu.status, 7) = 0
    /\ cpu.pc = Entry + 4

----------------------------------------------------------------------------
(* Claims about runs of the execution loop (SpecRun) *)

\* the loop is at a PC that holds a break
AtBreak == ~panicked /\ MemRead(cpu.memory, cpu.pc) = OpBRK

\* C14: once the loop is at a PC a with memory[a] = 0x00, every cycle
\* resolves the block without micro-operations cached for a, leaves the
\* whole CPU state as it is (so the PC stays a) and, after the cycle that
\* caches a, adds no cache entry.
C14_BreakFixedPoint ==
    [][AtBreak =>
          /\ cpu' = cpu
          /\ ~panicked'
          /\ DOMAIN compiled_blocks' = DOMAIN compiled_blocks \cup {cpu.pc}
          /\ compiled_blocks'[cpu.pc] = CompiledBlock(<<>>)
          /\ cpu.pc \in DOMAIN compiled_blocks =>
                 compiled_blocks' = compiled_blocks]_vars

\* a jump led the loop to a break, and a later cycle there found the block
\* in the cache and changed nothing
C14_Witness ==
    /\ AtBreak
    /\ last.op = "cycle"
    /\ ~last.ran
    /\ last.entry = cpu.pc
    /\ cpu = last.pre
    /\ cpu.pc # PowerOnPC
    /\ Cardinality(DOMAIN compiled_blocks) = 2

\* C15: in every state of a run from power-on, either no LDA has executed
\* (A = 0 and the flag byte is 0x24) or Zero is set iff A = 0 and Negative
\* equals bit 7 of A, on the compiled and on the interpreted path.
C15_FlagsFollowA ==
    \/ cpu.a = 0 /\ cpu.status = PowerOnStatus
    \/ /\ (Bit(cpu.status, 1) = 1) <=> (cpu.a = 0)
       /\ Bit(cpu.status, 7) = Bit(cpu.a, 7)

\* a fallback block stepped an LDA of a negative value from power-on
C15_Witness ==
    /\ last.op = "cycle"
    /\ last.invoked
    /\ ~panicked
    /\ compiled_blocks[last.entry].fallback
    /\ last.pre.a = 0
    /\ last.pre.status = PowerOnStatus
    /\ Bit(cpu.a, 7) = 1
    /\ Bit(cpu.status, 7) = 1
    /\ Bit(cpu.status, 1) = 0

----------------------------------------------------------------------------
(* Claims about the step interpreter behind a fallback block (Spec) *)

\* the last operation ran execute_instruction on an opcode other than 0xA9,
\* the one opcode its match knows
SteppedUnsupported ==
    /\ last.op = "invoke"
    /\ compiled_blocks[last.entry].fallback
    /\ MemRead(last.pre.memory, last.pre.pc) # OpLDA

\* C16: when execute_instruction reads an opcode it does not support it
\* prints its diagnostic and changes nothing but the PC, which advances by
\* one: A, X, Y, SP, the flag byte and memory stay.
C16_LogAndSkip ==
    SteppedUnsupported =>
        /\ ~panicked
        /\ last.unsupported
        /\ cpu = [last.pre EXCEPT !.pc = (last.pre.pc + 1) % MemorySize]

----------------------------------------------------------------------------
(* More claims about runs of the execution loop (SpecRun) *)

\* X, Y, SP and the six flag bits other than Zero and Negative are those of
\* the power-on state
PowerOnKept ==
    /\ cpu.x = 0
    /\ cpu.y = 0
    /\ cpu.sp = PowerOnSP
    /\ \A k \in {0, 2, 3, 4, 5, 6} :
           Bit(cpu.status, k) = Bit(PowerOnStatus, k)

\* C17: over a run from power-on X = 0, Y = 0, SP = 0xFD, the flag bits other
\* than bits 1 and 7 are those of 0x24, and no cycle changes a memory byte
\* of the image the host loaded.
C17_CoreFrame == []PowerOnKept /\ [][cpu'.memory = cpu.memory]_vars

\* cycles have changed A, both flags and the PC, and memory is still the
\* image the first cycle compiled from
C17_Witness ==
    /\ last.op = "cycle"
    /\ ~panicked
    /\ cpu.a # 0
    /\ Bit(cpu.status, 7) = 1
    /\ cpu.pc # PowerOnPC
    /\ Cardinality(DOMAIN compiled_blocks) >= 2
    /\ cpu.memory = compiled_from[PowerOnPC]
    /\ PowerOnKept

\* the last cycle of the loop got as far as invoking a block
CycleInvoked == last.op = "cycle" /\ last.invoked

\* what stepping the one instruction at address e does to the cpu c
SteppedAt(c, e) ==
    IF MemRead(c.memory, e) = OpLDA
    THEN LET value == MemRead(c.memory, (e + 1) % MemorySize)
         IN  [c EXCEPT
                 !.a = value,
                 !.status = BitOr(BitAnd(c.status, 125, 8),
                                  (IF value = 0 THEN ZeroFlag ELSE 0)
                                  + (IF value >= 128 THEN NegativeFlag ELSE 0),
                                  8),
                 !.pc = (e + 2) % MemorySize]
    ELSE [c EXCEPT !.pc = (e + 1) % MemorySize]

\* C18: every block the execution loop invokes is invoked with the cpu's PC
\* equal to the address the block is cached under, and a fallback block the
\* loop invokes steps the instruction at that address.
C18_InvokedAtOwnEntry ==
    CycleInvoked =>
        /\ last.at = last.entry
        /\ last.pre.pc = last.entry
        /\ last.entry \in DOMAIN compiled_blocks
        /\ compiled_blocks[last.entry].fallback =>
               /\ ~panicked
               /\ cpu = SteppedAt(last.pre, last.entry)

\* the loop invoked a fallback block cached under an address other than the
\* power-on PC
C18_Witness ==
    /\ CycleInvoked
    /\ ~panicked
    /\ last.entry # PowerOnPC
    /\ compiled_blocks[last.entry].fallback
    /\ cpu.pc = (last.entry + 1) % MemorySize

====
